---------------------------- MODULE Spec2Model ----------------------------
(***************************************************************************)
(* A model of SimpleMeshtasticBYOS (src/mesh_simple.py): the daemon that   *)
(* listens to a Meshtastic radio, keeps a node registry, a bounded message *)
(* history, message counters and a channel registry, and periodically      *)
(* publishes a snapshot of them over HTTP.                                 *)
(*                                                                         *)
(* Four specifications share the state:                                    *)
(*   Spec / FairSpec  the daemon: run_update_loop with connect(), the      *)
(*                    cycle and its sleeps, the signal handler and the     *)
(*                    transport's events;                                  *)
(*   NodeSpec         on_node_updated and update_node_data acting on the   *)
(*                    node registry;                                       *)
(*   MsgSpec          on_receive acting on the history and the counters;   *)
(*   SnapSpec         get_online_nodes and prepare_display_data applied to *)
(*                    stores drawn from bounded sets.                      *)
(***************************************************************************)
EXTENDS Integers, Sequences, FiniteSets, TLC

(***************************************************************************)
(* Program constants (src/mesh_simple.py lines 27-31, 274-280, 340, 358).  *)
(***************************************************************************)
MAX_RECENT_MESSAGES == 10

MAX_RECONNECT_ATTEMPTS == 5

ONLINE_THRESHOLD_MINUTES == 30

RECONNECT_WAIT == 30

FAULT_WAIT == 60

TICK == 1

(***************************************************************************)
(* Bounds of the model.                                                    *)
(***************************************************************************)
\* update_interval: the configured number of 1-second ticks between cycles
UpdateInterval == 2

\* how many termination signals the environment delivers at most
MaxSignals == 2

\* how many text packets the transport delivers while the main loop runs
MaxLoopTexts == 1

\* how many times in a row ConnSpec's transport announces a connection
\* without a change of its data
MaxAnnounces == 2

\* how many text packets BuildSpec's transport delivers
MaxBuildTexts == 2

\* how many node-updated events and how many text packets that are
\* processed EventSpec's transport delivers
MaxEventNodes == 2

MaxEventTexts == 2

\* how many node payloads NodeSpec processes (delivered and replayed)
MaxNodeEvents == 3

\* how many text packets MsgSpec delivers: more than MAX_RECENT_MESSAGES
MaxTextPackets == 11

\* the largest registry SnapSpec builds a snapshot of: more than the 12 shown
MaxSnapNodes == 13

\* the longest channel list SnapSpec's transport reports: more than the 6 shown
MaxSnapChannels == 7

VARIABLES
    pc,                  \* position of the main thread in run_update_loop
    running,             \* self.running
    interface,           \* self.interface is set (a handle is stored)
    reconnect_attempts,  \* the local of run_update_loop
    tick_i,              \* the i of "for i in range(self.update_interval)"
    topen,               \* the transport (SerialInterface) is open
    closed,              \* interface.close() was called by disconnect()
    conn_event,          \* a connection-established event is queued
    signals,             \* history: signals delivered so far
    connect_calls,       \* history: calls of connect() so far
    waits30,             \* history: completed time.sleep(30) calls
    entered_after_signal,\* history: the loop body was entered after a signal
    disconnect_called,   \* history: disconnect() was called
    overrun,             \* history: seconds the sleep call that has just
                         \*   returned ran with a shutdown request pending
    nodes,               \* self.nodes: dict node id -> entry, in insertion order
    tnodes,              \* interface.nodes: the transport's node table
    node_log,            \* history: the node payloads handed to on_node_updated
    recent_messages,     \* self.recent_messages: deque(maxlen=MAX_RECENT_MESSAGES)
    message_stats,       \* self.message_stats: defaultdict(int)
    now,                 \* the clock: seconds since the epoch
    senders,             \* the origins the packets of this run come from
    msg_log,             \* history: text and sender of the delivered text packets
    last_blank,          \* history: the last delivered packet carried no text
    channels,            \* self.channels: dict index -> channel, in insertion order
    tchannels,           \* the list of channels the transport reports
    online_nodes,        \* the list get_online_nodes returned last
    snapshot,            \* the documents prepare_display_data built last: none or one
    publish_result,      \* what the last send_to_byos returned: none or one value
    posts,               \* history: the POSTs the last send_to_byos has issued
    response,            \* history: how the last POST ended
    handled,             \* history: connection-established events handled
                         \*   since the transport last loaded its data
    last_raised,         \* history: the handler of the last delivered event
                         \*   raised inside its try block
    receiving,           \* the on_receive call in progress on the transport's
                         \*   thread, past line 139: none or one frame
    recent_list,         \* get_message_summary's local recent_list (line 246)
    message_summary,     \* prepare_display_data's local message_summary
                         \*   (line 269): none or one value
    stats_online         \* get_network_stats's local online_nodes (line 257)

histvars == <<signals, connect_calls, waits30, entered_after_signal,
              disconnect_called, overrun>>

loopvars == <<pc, running, interface, reconnect_attempts, tick_i, topen, closed,
              conn_event, histvars>>

nodevars == <<nodes, tnodes, node_log>>

msgvars == <<recent_messages, message_stats, now, senders, msg_log, last_blank>>

snapvars == <<channels, tchannels, online_nodes, snapshot, publish_result,
              posts, response>>

evvars == <<handled, last_raised>>

framevars == <<receiving, recent_list, message_summary, stats_online>>

storevars == <<nodevars, msgvars, snapvars, evvars, framevars>>

vars == <<loopvars, storevars>>

(***************************************************************************)
(* Python values.  An optional key of a payload is a set: {} when the key  *)
(* is missing, {v} when it is present with value v.  A dict is the         *)
(* sequence of its items in insertion order, as Python keeps it.           *)
(***************************************************************************)
\* d.get(key, default)
Opt(field, default) == IF field = {} THEN default ELSE CHOOSE x \in field : TRUE

DictKeys(d) == {d[i].k : i \in 1..Len(d)}

DictHas(d, key) == \E i \in 1..Len(d) : d[i].k = key

\* d[key], for a key of d
DictAt(d, key) == d[CHOOSE i \in 1..Len(d) : d[i].k = key].v

\* d.get(key, default)
DictGet(d, key, default) == IF DictHas(d, key) THEN DictAt(d, key) ELSE default

\* list(d.values())
DictValues(d) == [i \in 1..Len(d) |-> d[i].v]

\* d[key] = value: an existing key keeps its place, a new one goes last
DictSet(d, key, value) ==
    IF DictHas(d, key)
      THEN [i \in 1..Len(d) |-> IF d[i].k = key THEN [k |-> key, v |-> value]
                                                ELSE d[i]]
      ELSE Append(d, [k |-> key, v |-> value])

(***************************************************************************)
(* Times.  A formatted time '%H:%M' is modelled by the minute of the day   *)
(* it shows (zero-padded strings of equal length compare as these numbers  *)
(* do), an ISO timestamp by its date and its second of the day.            *)
(***************************************************************************)
\* datetime.fromtimestamp(t).strftime('%H:%M')
HHMM(t) == (t % 86400) \div 60

\* datetime.fromtimestamp(t).isoformat()
IsoFormat(t) == [date |-> t \div 86400, clock |-> t % 86400]

\* noon of day 20000
Noon == 20000 * 86400 + 12 * 3600

(***************************************************************************)
(* Node payloads, as the transport hands them to on_node_updated.  A       *)
(* signal-to-noise ratio is counted in hundredths of a dB.                 *)
(***************************************************************************)
\* what the model's transport reports about a node, apart from its number
NodeProfiles ==
    { [type |-> "dict", user |-> "dict", longName |-> {"Alpha"},
       shortName |-> {"A"}, lastHeard |-> {Noon - 60}, snr |-> {575},
       position |-> {"pos"}, deviceMetrics |-> {"bat"}],
      [type |-> "dict", user |-> "dict", longName |-> {},
       shortName |-> {"B"}, lastHeard |-> {Noon - 3600}, snr |-> {},
       position |-> {}, deviceMetrics |-> {}],
      [type |-> "dict", user |-> "missing", longName |-> {},
       shortName |-> {}, lastHeard |-> {}, snr |-> {},
       position |-> {}, deviceMetrics |-> {}],
      \* 'user' is present but is None: user_info.get raises
      [type |-> "dict", user |-> "none", longName |-> {},
       shortName |-> {}, lastHeard |-> {Noon - 1800}, snr |-> {-1210},
       position |-> {}, deviceMetrics |-> {}],
      \* the payload is not a dict: node.get raises
      [type |-> "other", user |-> "missing", longName |-> {},
       shortName |-> {}, lastHeard |-> {}, snr |-> {},
       position |-> {}, deviceMetrics |-> {}] }

\* the 'num' key: missing, zero, or a node number
NodeNums == {{}, {0}, {1}, {2}}

NodePayload(num, prof) ==
    [type |-> prof.type, num |-> num, user |-> prof.user,
     longName |-> prof.longName, shortName |-> prof.shortName,
     lastHeard |-> prof.lastHeard, snr |-> prof.snr,
     position |-> prof.position, deviceMetrics |-> prof.deviceMetrics]

\* the payloads the model's transport delivers: every well-formed profile under
\* every 'num', one payload whose 'user' is None, one that is not a dict
NodeEvents ==
    {NodePayload(n, p) : n \in NodeNums,
                         p \in {q \in NodeProfiles : q.type = "dict" /\ q.user # "none"}}
    \cup {NodePayload({1}, p) : p \in {q \in NodeProfiles : q.user = "none"}}
    \cup {NodePayload({}, p) : p \in {q \in NodeProfiles : q.type # "dict"}}

\* the contents interface.nodes can have: one well-formed payload per node
NodeTables ==
    { << >>,
      << NodePayload({1}, CHOOSE p \in NodeProfiles : p.shortName = {"A"}),
         NodePayload({2}, CHOOSE p \in NodeProfiles : p.shortName = {"B"}) >>,
      << NodePayload({2}, CHOOSE p \in NodeProfiles : p.user = "missing") >> }

\* the node-updated events of the main loop's transport
LoopNodeEvents ==
    { NodePayload({1}, CHOOSE p \in NodeProfiles : p.shortName = {"B"}) }

\* the payload makes on_node_updated raise inside its try block
NodeRaises(node) ==
    \/ node.type # "dict"
    \/ Opt(node.num, 0) # 0 /\ node.user = "none"

\* the dict literal of lines 154-162
NodeEntry(node) ==
    [id |-> Opt(node.num, 0),
     longName |-> IF node.user = "dict" THEN Opt(node.longName, "Unknown")
                                       ELSE "Unknown",
     shortName |-> IF node.user = "dict" THEN Opt(node.shortName, "UNK")
                                        ELSE "UNK",
     lastHeard |-> Opt(node.lastHeard, 0),
     snr |-> Opt(node.snr, 0),
     position |-> node.position,
     telemetry |-> node.deviceMetrics]

\* an on_node_updated that updates an existing entry key by key, keeping the
\* names it has when the payload brings none
NodeUpdatedMerging(reg, node) ==
    IF node.type # "dict" THEN reg
    ELSE IF Opt(node.num, 0) = 0 THEN reg
    ELSE IF node.user = "none" THEN reg
    ELSE IF DictHas(reg, Opt(node.num, 0)) /\ node.user = "missing"
      THEN DictSet(reg, Opt(node.num, 0),
                   [NodeEntry(node) EXCEPT
                      !.longName = DictAt(reg, Opt(node.num, 0)).longName,
                      !.shortName = DictAt(reg, Opt(node.num, 0)).shortName])
    ELSE DictSet(reg, Opt(node.num, 0), NodeEntry(node))

\* on_node_updated (lines 148-165) as a function of the registry
NodeUpdated(reg, node) ==
    IF node.type # "dict" THEN reg                 \* node.get raises: caught
    ELSE IF Opt(node.num, 0) = 0 THEN reg          \* "if node_id:" is false
    ELSE IF node.user = "none" THEN reg            \* user_info.get raises: caught
    ELSE DictSet(reg, Opt(node.num, 0), NodeEntry(node))

\* the for loop of update_node_data (lines 174-175) over a node table
RECURSIVE ReplayNodes(_, _)
ReplayNodes(reg, table) ==
    IF table = << >> THEN reg
    ELSE ReplayNodes(NodeUpdated(reg, Head(table)), Tail(table))

\* update_node_data (lines 167-178) as a function of the registry
UpdateNodeData(reg, handle, table) ==
    IF ~handle THEN reg ELSE ReplayNodes(reg, table)

(***************************************************************************)
(* Text packets, as the transport hands them to on_receive.  A text is a   *)
(* sequence of characters: 0 is a blank, n > 0 a letter; the n-th packet   *)
(* of a run carries the letter n, which tells the messages apart.          *)
(***************************************************************************)
RECURSIVE LStrip(_)
LStrip(t) == IF t # << >> /\ Head(t) = 0 THEN LStrip(Tail(t)) ELSE t

RECURSIVE RStrip(_)
RStrip(t) ==
    IF t # << >> /\ t[Len(t)] = 0 THEN RStrip(SubSeq(t, 1, Len(t) - 1)) ELSE t

\* str.strip()
Strip(t) == RStrip(LStrip(t))

\* str(from_id) of a node number
StrOfNum(n) == ToString(n)

\* the shapes of a packet: what 'decoded' is and where a text sits.  A slot
\* is "none" (absent), "empty" (""), "blank" (white space) or "text".
PacketShapes ==
    { \* decoded is a dict with a 'text' key
      [type |-> "dict", decoded |-> "dict", attr |-> "none", item |-> "text", data |-> "none"],
      \* decoded is an object with a .text attribute
      [type |-> "dict", decoded |-> "object", attr |-> "text", item |-> "none", data |-> "none"],
      \* decoded is an object with a .data.text attribute only
      [type |-> "dict", decoded |-> "object", attr |-> "none", item |-> "none", data |-> "text"],
      \* texts that are empty or white space
      [type |-> "dict", decoded |-> "dict", attr |-> "none", item |-> "blank", data |-> "none"],
      [type |-> "dict", decoded |-> "dict", attr |-> "none", item |-> "empty", data |-> "none"],
      [type |-> "dict", decoded |-> "object", attr |-> "empty", item |-> "none", data |-> "none"],
      [type |-> "dict", decoded |-> "object", attr |-> "none", item |-> "none", data |-> "blank"],
      \* a blank .text hides a .data.text
      [type |-> "dict", decoded |-> "object", attr |-> "blank", item |-> "none", data |-> "text"],
      \* no text anywhere: a position packet, or no 'decoded' key at all
      [type |-> "dict", decoded |-> "dict", attr |-> "none", item |-> "none", data |-> "none"],
      [type |-> "dict", decoded |-> "missing", attr |-> "none", item |-> "none", data |-> "none"],
      \* the packet is not a dict: packet.get raises
      [type |-> "other", decoded |-> "missing", attr |-> "none", item |-> "none", data |-> "none"] }

\* the packets BuildSpec's transport delivers: a text message, and a packet
\* without any text
LoopPacketShapes ==
    {sh \in PacketShapes :
        /\ sh.type = "dict" /\ sh.decoded = "dict"
        /\ sh.attr = "none" /\ sh.data = "none" /\ sh.item \in {"text", "none"}}

\* the packets the main loop's transport delivers: text messages
LoopTextShapes == {sh \in LoopPacketShapes : sh.item = "text"}

\* who sent a packet and when: the keys 'fromId', 'from', 'channel', 'rxTime'
PacketOrigins ==
    { [fromId |-> {"!a"}, from |-> {1}, channel |-> {1}, rxTime |-> {Noon - 90}],
      [fromId |-> {}, from |-> {2}, channel |-> {}, rxTime |-> {}],
      [fromId |-> {}, from |-> {}, channel |-> {}, rxTime |-> {Noon - 30}],
      [fromId |-> {"total"}, from |-> {1}, channel |-> {}, rxTime |-> {}],
      \* a packet whose time datetime.fromtimestamp rejects
      [fromId |-> {"!c"}, from |-> {3}, channel |-> {}, rxTime |-> {-1}] }

\* the senders of one run of the model: two of the origins
SenderSets ==
    { {o \in PacketOrigins : o.from = {1}},
      {o \in PacketOrigins : o.fromId = {}} }

\* the text a slot holds in the n-th packet: " n" for a text, " " for a blank
SlotText(slot, n) ==
    IF slot = "text" THEN {<<0, n>>}
    ELSE IF slot = "blank" THEN {<<0>>}
    ELSE IF slot = "empty" THEN {<< >>}
    ELSE {}

Packet(shape, origin, n) ==
    [type |-> shape.type, decoded |-> shape.decoded,
     attrText |-> SlotText(shape.attr, n),
     itemText |-> SlotText(shape.item, n),
     dataText |-> SlotText(shape.data, n),
     fromId |-> origin.fromId, from |-> origin.from,
     channel |-> origin.channel, rxTime |-> origin.rxTime]

\* lines 109-118: the text found in the packet, {} for None
DecodeText(packet) ==
    IF packet.decoded = "object" /\ packet.attrText # {} THEN packet.attrText
    ELSE IF packet.decoded = "dict" /\ packet.itemText # {} THEN packet.itemText
    ELSE IF packet.decoded = "object" /\ packet.dataText # {} THEN packet.dataText
    ELSE {}

\* line 120 without the .strip(): "if message_text:"
HasTextNoStrip(packet) ==
    /\ DecodeText(packet) # {}
    /\ Opt(DecodeText(packet), << >>) # << >>

\* line 120: "message_text and message_text.strip()"
HasText(packet) ==
    /\ DecodeText(packet) # {}
    /\ Opt(DecodeText(packet), << >>) # << >>
    /\ Strip(Opt(DecodeText(packet), << >>)) # << >>

\* line 121: str(packet.get('fromId', packet.get('from', 'Unknown')))
SenderId(packet) ==
    IF packet.fromId # {} THEN Opt(packet.fromId, "Unknown")
    ELSE IF packet.from # {} THEN StrOfNum(Opt(packet.from, 0))
    ELSE "Unknown"

\* lines 126-128: the sender's short name in the registry, else its identity
DisplayName(reg, packet) ==
    IF DictHas(reg, Opt(packet.from, 0))
      THEN DictAt(reg, Opt(packet.from, 0)).shortName
      ELSE SenderId(packet)

\* lines 122-137: the message_data dict
MessageData(reg, packet, t) ==
    [text |-> Opt(DecodeText(packet), << >>),
     from |-> DisplayName(reg, packet),
     from_id |-> SenderId(packet),
     channel |-> Opt(packet.channel, 0),
     time |-> HHMM(Opt(packet.rxTime, t)),
     timestamp |-> IsoFormat(Opt(packet.rxTime, t))]

\* a deque that drops the newest message instead of the oldest when full
DequeAppendKeepsOldest(q, x) ==
    IF Len(q) < MAX_RECENT_MESSAGES THEN Append(q, x) ELSE q

\* deque(maxlen=MAX_RECENT_MESSAGES).append
DequeAppend(q, x) ==
    IF Len(q) < MAX_RECENT_MESSAGES THEN Append(q, x) ELSE Append(Tail(q), x)

\* message_stats[key] += 1 on a defaultdict(int)
Increment(stats, key) == DictSet(stats, key, DictGet(stats, key, 0) + 1)

\* line 124: datetime.fromtimestamp(rx_time) raises; -1 stands for a value
\* it rejects (None, a string, a time past the year 9999)
TimeRaises(packet) == Opt(packet.rxTime, 0) < 0

\* on_receive raises inside its try block: packet.get raises on a packet
\* that is not a dict (line 109), or the time of a text packet is rejected
PacketRaises(packet) ==
    \/ packet.type # "dict"
    \/ HasText(packet) /\ TimeRaises(packet)

\* an on_receive that records the message before it reads the time
ReceiveHistoryBeforeTime(hist, reg, packet, t) ==
    IF packet.type # "dict" THEN hist
    ELSE IF ~HasText(packet) THEN hist
    ELSE DequeAppend(hist, MessageData(reg, packet, t))

\* on_receive (lines 106-146): the new history
ReceiveHistory(hist, reg, packet, t) ==
    IF PacketRaises(packet) THEN hist                \* caught at line 145
    ELSE IF ~HasText(packet) THEN hist
    ELSE DequeAppend(hist, MessageData(reg, packet, t))

\* on_receive (lines 106-146): the new counters
ReceiveStats(stats, packet) ==
    IF PacketRaises(packet) THEN stats
    ELSE IF ~HasText(packet) THEN stats
    ELSE Increment(Increment(stats, SenderId(packet)), "total")

(***************************************************************************)
(* Channels.  The transport reports a list of channel objects; a local     *)
(* node without a .channels attribute counts as the empty list, since      *)
(* both leave channels_found at 0.                                         *)
(***************************************************************************)
\* str.strip() of a channel name affects only names made of white space here
StripName(name) == IF name \in {" ", "  "} THEN "" ELSE name

\* the channel objects the model's transport reports
ChannelObjects ==
    { [settings |-> TRUE, name |-> {"LongFast"}, psk |-> TRUE, role |-> {"PRIMARY"}],
      [settings |-> TRUE, name |-> {"Admin"}, psk |-> FALSE, role |-> {}],
      [settings |-> TRUE, name |-> {""}, psk |-> FALSE, role |-> {"DISABLED"}],
      [settings |-> TRUE, name |-> {" "}, psk |-> TRUE, role |-> {"SECONDARY"}],
      [settings |-> TRUE, name |-> {}, psk |-> TRUE, role |-> {"SECONDARY"}],
      [settings |-> FALSE, name |-> {}, psk |-> FALSE, role |-> {}] }

\* the radios the main loop connects to: the node table and the channel list
\* the transport has loaded when the connection is established
LoopRadios ==
    { [nodes |-> << >>, channels |-> << >>],
      [nodes |-> << NodePayload({1}, CHOOSE p \in NodeProfiles : p.shortName = {"A"}) >>,
       channels |-> << CHOOSE c \in ChannelObjects : c.name = {"LongFast"},
                       CHOOSE c \in ChannelObjects : c.name = {" "} >>] }

\* lines 194-201: the entry recorded for the i-th reported channel (i from 0)
ChannelEntry(i, ch) ==
    [index |-> i,
     name |-> Opt(ch.name, "Channel " \o ToString(i)),
     psk |-> ch.psk,
     role |-> Opt(ch.role, "secondary")]

\* lines 193-195: the channel is recorded
ChannelNamed(i, ch) ==
    /\ ch.settings
    /\ Opt(ch.name, "Channel " \o ToString(i)) # ""
    /\ StripName(Opt(ch.name, "Channel " \o ToString(i))) # ""

\* lines 207-212: the synthetic default channel
DefaultChannel == [index |-> 0, name |-> "Default", psk |-> TRUE, role |-> "primary"]

\* the for loop of lines 192-202 from the i-th reported channel on
RECURSIVE RecordChannels(_, _, _)
RecordChannels(reg, list, i) ==
    IF i > Len(list) THEN reg
    ELSE RecordChannels(IF ChannelNamed(i - 1, list[i])
                          THEN DictSet(reg, i - 1, ChannelEntry(i - 1, list[i]))
                          ELSE reg,
                        list, i + 1)

\* an update_channel_data that records the default channel under a new index
UpdateChannelDataDefaultAppended(reg, handle, reported) ==
    IF ~handle THEN reg
    ELSE IF \A i \in 1..Len(reported) : ~ChannelNamed(i - 1, reported[i])
      THEN DictSet(reg, Len(reg), DefaultChannel)
    ELSE RecordChannels(reg, reported, 1)

\* update_channel_data (lines 180-218) as a function of the registry
UpdateChannelData(reg, handle, reported) ==
    IF ~handle THEN reg
    ELSE IF \A i \in 1..Len(reported) : ~ChannelNamed(i - 1, reported[i])
      THEN DictSet(reg, 0, DefaultChannel)
    ELSE RecordChannels(reg, reported, 1)

(***************************************************************************)
(* The Online Classifier and the Snapshot Builder.                         *)
(***************************************************************************)
\* round(x, 1) of a ratio in hundredths: the nearest tenth, a tie to the even
\* tenth (the ratios of the model, multiples of 0.25 dB, are exact floats)
Round1(x) ==
    LET lo == x \div 10
        r  == x % 10
    IN  IF r < 5 THEN lo
        ELSE IF r > 5 THEN lo + 1
        ELSE IF lo % 2 = 0 THEN lo ELSE lo + 1

\* lines 230-236: the display record of a node
OnlineRecord(node) ==
    [name |-> node.shortName,
     longName |-> node.longName,
     lastHeard |-> HHMM(node.lastHeard),
     snr |-> Round1(node.snr),
     id |-> node.id]

\* lines 222-223: the threshold timestamp
Threshold(t) == t - ONLINE_THRESHOLD_MINUTES * 60

\* a classifier that also takes the nodes heard exactly at the threshold
RECURSIVE SelectOnlineInclusive(_, _)
SelectOnlineInclusive(entries, t) ==
    IF entries = << >> THEN << >>
    ELSE IF Head(entries).lastHeard >= Threshold(t)
      THEN <<OnlineRecord(Head(entries))>> \o SelectOnlineInclusive(Tail(entries), t)
    ELSE SelectOnlineInclusive(Tail(entries), t)

\* lines 226-236: the nodes heard after the threshold, in registry order
RECURSIVE SelectOnline(_, _)
SelectOnline(entries, t) ==
    IF entries = << >> THEN << >>
    ELSE IF Head(entries).lastHeard > Threshold(t)
      THEN <<OnlineRecord(Head(entries))>> \o SelectOnline(Tail(entries), t)
    ELSE SelectOnline(Tail(entries), t)

\* one record put in its place in a list sorted by descending lastHeard
\* string, after the records with the same string (list.sort is stable)
RECURSIVE InsertDescending(_, _)
InsertDescending(sorted, x) ==
    IF sorted = << >> THEN <<x>>
    ELSE IF Head(sorted).lastHeard >= x.lastHeard
      THEN <<Head(sorted)>> \o InsertDescending(Tail(sorted), x)
    ELSE <<x>> \o sorted

\* line 238: online_nodes.sort(key=lambda x: x['lastHeard'], reverse=True)
RECURSIVE SortDescending(_)
SortDescending(list) ==
    IF list = << >> THEN << >>
    ELSE InsertDescending(SortDescending(SubSeq(list, 1, Len(list) - 1)),
                          list[Len(list)])

\* get_online_nodes (lines 220-239)
GetOnlineNodes(reg, t) == SortDescending(SelectOnline(DictValues(reg), t))

\* list.reverse()
Reverse(list) == [i \in 1..Len(list) |-> list[Len(list) + 1 - i]]

\* list[:n]
Prefix(list, n) == SubSeq(list, 1, IF Len(list) < n THEN Len(list) ELSE n)

\* a get_message_summary that forgets to reverse the history
GetMessageSummaryOldestFirst(hist, stats) ==
    IF hist = << >> THEN [total |-> 0, recent |-> << >>]
    ELSE [total |-> DictGet(stats, "total", 0), recent |-> Prefix(hist, 10)]

\* get_message_summary (lines 241-253)
GetMessageSummary(hist, stats) ==
    IF hist = << >> THEN [total |-> 0, recent |-> << >>]
    ELSE [total |-> DictGet(stats, "total", 0), recent |-> Prefix(Reverse(hist), 10)]

\* get_network_stats (lines 255-264)
GetNetworkStats(reg, chans, t) ==
    [total_nodes |-> Len(reg),
     online_nodes |-> Len(GetOnlineNodes(reg, t)),
     channels |-> Len(chans),
     last_update |-> t % 86400]

\* a prepare_display_data that shows every channel
PrepareDisplayDataAllChannels(reg, hist, stats, chans, handle, t) ==
    [network_stats |-> GetNetworkStats(reg, chans, t),
     online_nodes |-> Prefix(GetOnlineNodes(reg, t), 12),
     recent_messages |-> Prefix(GetMessageSummary(hist, stats).recent, 10),
     message_stats |-> [total |-> GetMessageSummary(hist, stats).total],
     channels |-> DictValues(chans),
     status |-> IF handle THEN "connected" ELSE "disconnected",
     timestamp |-> IsoFormat(t)]

\* prepare_display_data (lines 266-289)
PrepareDisplayData(reg, hist, stats, chans, handle, t) ==
    [network_stats |-> GetNetworkStats(reg, chans, t),
     online_nodes |-> Prefix(GetOnlineNodes(reg, t), 12),
     recent_messages |-> Prefix(GetMessageSummary(hist, stats).recent, 10),
     message_stats |-> [total |-> GetMessageSummary(hist, stats).total],
     channels |-> Prefix(DictValues(chans), 6),
     status |-> IF handle THEN "connected" ELSE "disconnected",
     timestamp |-> IsoFormat(t)]

(***************************************************************************)
(* The Sync Client.                                                        *)
(***************************************************************************)
\* what requests.post can end with: a response with a status, a timeout, or
\* another network error
HttpOutcomes ==
    { [kind |-> "response", status |-> 200],
      [kind |-> "response", status |-> 201],
      [kind |-> "response", status |-> 204],
      [kind |-> "response", status |-> 404],
      [kind |-> "response", status |-> 500],
      [kind |-> "timeout", status |-> 0],
      [kind |-> "error", status |-> 0] }

\* a send_to_byos that takes every 2xx status for a success
SendToByosAny2xx(outcome) ==
    outcome.kind = "response" /\ outcome.status \div 100 = 2

\* send_to_byos (lines 300-318): the value returned after requests.post ended
\* with the outcome
SendToByos(outcome) ==
    outcome.kind = "response" /\ outcome.status \in {200, 201}

(***************************************************************************)
(* __init__ (lines 45-65): the state after construction.  The signal       *)
(* handlers are installed by the constructor, so a signal can be delivered *)
(* from this state on, before run_update_loop is called.                   *)
(***************************************************************************)
LoopInit ==
    /\ pc = "start"
    /\ running = FALSE
    /\ interface = FALSE
    /\ reconnect_attempts = 0
    /\ tick_i = 0
    /\ topen = FALSE
    /\ closed = FALSE
    /\ conn_event = FALSE
    /\ signals = 0
    /\ connect_calls = 0
    /\ waits30 = 0
    /\ entered_after_signal = FALSE
    /\ disconnect_called = FALSE
    /\ overrun = 0

\* no handler and no build is in progress
FrameInit ==
    /\ receiving = << >>
    /\ recent_list = << >>
    /\ message_summary = << >>
    /\ stats_online = << >>

StoreInit ==
    /\ nodes = << >>
    /\ tnodes = << >>
    /\ node_log = << >>
    /\ recent_messages = << >>
    /\ message_stats = << >>
    /\ now = Noon
    /\ senders = {o \in PacketOrigins : o.fromId = {"!a"}}
    /\ msg_log = << >>
    /\ last_blank = FALSE
    /\ channels = << >>
    /\ tchannels = << >>
    /\ online_nodes = << >>
    /\ snapshot = << >>
    /\ publish_result = << >>
    /\ posts = 0
    /\ response = [kind |-> "none", status |-> 0]
    /\ handled = 0
    /\ last_raised = FALSE
    /\ FrameInit

Init == LoopInit /\ StoreInit

\* _signal_handler (lines 67-70): self.running = False, at any point of the
\* main thread's execution.
SignalHandler ==
    /\ signals < MaxSignals
    /\ running' = FALSE
    /\ signals' = signals + 1
    /\ UNCHANGED <<pc, interface, reconnect_attempts, tick_i, topen, closed,
                   conn_event, connect_calls, waits30, entered_after_signal,
                   disconnect_called, overrun>>
    /\ UNCHANGED storevars

\* run_update_loop, lines 322-323: self.running = True; reconnect_attempts = 0
RunStart ==
    /\ pc = "start"
    /\ running' = TRUE
    /\ reconnect_attempts' = 0
    /\ pc' = "while"
    /\ overrun' = 0
    /\ UNCHANGED <<interface, tick_i, topen, closed, conn_event, signals,
                   connect_calls, waits30, entered_after_signal,
                   disconnect_called>>
    /\ UNCHANGED storevars

\* lines 329-331: "while self.running:" and "if not self.interface:"
LoopTop ==
    /\ pc = "while"
    /\ IF ~running
         THEN pc' = "exit" /\ UNCHANGED entered_after_signal
         ELSE /\ pc' = IF interface THEN "update" ELSE "connect"
              /\ entered_after_signal' = (entered_after_signal \/ signals > 0)
    /\ overrun' = 0
    /\ UNCHANGED <<running, interface, reconnect_attempts, tick_i, topen,
                   closed, conn_event, signals, connect_calls, waits30,
                   disconnect_called>>
    /\ UNCHANGED storevars

\* a loop that gives up only once the counter has passed the maximum
ConnectFailLenient ==
    /\ pc = "connect"
    /\ connect_calls' = connect_calls + 1
    /\ reconnect_attempts' = reconnect_attempts + 1
    /\ pc' = IF reconnect_attempts + 1 > MAX_RECONNECT_ATTEMPTS
               THEN "exit" ELSE "sleep30"
    /\ overrun' = 0
    /\ UNCHANGED <<running, interface, tick_i, topen, closed, conn_event,
                   signals, waits30, entered_after_signal, disconnect_called>>
    /\ UNCHANGED storevars

\* connect() fails (lines 87-89) and the loop handles it (lines 335-341):
\* the counter is incremented; at MAX_RECONNECT_ATTEMPTS the loop breaks,
\* otherwise it goes on to time.sleep(30).
ConnectFail ==
    /\ pc = "connect"
    /\ connect_calls' = connect_calls + 1
    /\ reconnect_attempts' = reconnect_attempts + 1
    /\ pc' = IF reconnect_attempts + 1 >= MAX_RECONNECT_ATTEMPTS
               THEN "exit" ELSE "sleep30"
    /\ overrun' = 0
    /\ UNCHANGED <<running, interface, tick_i, topen, closed, conn_event,
                   signals, waits30, entered_after_signal, disconnect_called>>
    /\ UNCHANGED storevars

\* connect() succeeds, first half (lines 76-83): the SerialInterface
\* constructor opens the transport, which loads the radio's node table and
\* channel list and queues the connection-established event; the handle is
\* not stored yet.
ConnectOpen ==
    /\ pc = "connect"
    /\ connect_calls' = connect_calls + 1
    /\ topen' = TRUE
    /\ conn_event' = TRUE
    /\ \E radio \in LoopRadios :
         tnodes' = radio.nodes /\ tchannels' = radio.channels
    /\ pc' = "connect_store"
    /\ overrun' = 0
    /\ UNCHANGED <<running, interface, reconnect_attempts, tick_i, closed,
                   signals, waits30, entered_after_signal, disconnect_called>>
    /\ handled' = 0
    /\ UNCHANGED <<nodes, node_log, msgvars, channels, online_nodes, snapshot,
                   publish_result, posts, response, last_raised, framevars>>

\* connect() succeeds, second half: the constructor returns, the handle is
\* assigned to self.interface, connect() returns True and the loop resets
\* the counter (line 333).
ConnectStore ==
    /\ pc = "connect_store"
    /\ interface' = TRUE
    /\ reconnect_attempts' = 0
    /\ pc' = "update"
    /\ overrun' = 0
    /\ UNCHANGED <<running, tick_i, topen, closed, conn_event, signals,
                   connect_calls, waits30, entered_after_signal,
                   disconnect_called>>
    /\ UNCHANGED storevars

\* A time.sleep(d) returns.  Python resumes the sleep after a signal handler
\* has run, so the call lasts d seconds whatever `running` is.  overrun is
\* how long the call that has just returned ran with a shutdown request
\* pending, at worst (the request came as the call began); the main thread's
\* next step clears it.
SleepFor(d) == overrun' = IF running THEN 0 ELSE d

\* lines 340-341: time.sleep(30); continue
Sleep30 ==
    /\ pc = "sleep30"
    /\ SleepFor(RECONNECT_WAIT)
    /\ waits30' = waits30 + 1
    /\ pc' = "while"
    /\ UNCHANGED <<running, interface, reconnect_attempts, tick_i, topen,
                   closed, conn_event, signals, connect_calls,
                   entered_after_signal, disconnect_called>>
    /\ UNCHANGED storevars

\* lines 343-344: update_node_data()
CycleUpdate ==
    /\ pc = "update"
    /\ nodes' = UpdateNodeData(nodes, interface, tnodes)
    /\ pc' = "publish"
    /\ overrun' = 0
    /\ UNCHANGED <<running, interface, reconnect_attempts, tick_i, topen,
                   closed, conn_event, signals, connect_calls, waits30,
                   entered_after_signal, disconnect_called>>
    /\ UNCHANGED <<tnodes, node_log, msgvars, snapvars, evvars, framevars>>

\* line 345, send_to_byos, first half (line 294): prepare_display_data()
PublishBuild ==
    /\ pc = "publish"
    /\ snapshot' = <<PrepareDisplayData(nodes, recent_messages, message_stats,
                                        channels, interface, now)>>
    /\ pc' = "post"
    /\ overrun' = 0
    /\ UNCHANGED <<running, interface, reconnect_attempts, tick_i, topen,
                   closed, conn_event, signals, connect_calls, waits30,
                   entered_after_signal, disconnect_called>>
    /\ UNCHANGED <<nodevars, msgvars, channels, tchannels, online_nodes,
                   publish_result, posts, response, evvars, framevars>>

\* a send_to_byos that empties the history once the server has taken it
PublishPostFlushing ==
    /\ pc = "post"
    /\ \E outcome \in HttpOutcomes :
         /\ response' = outcome
         /\ publish_result' = <<SendToByos(outcome)>>
         /\ recent_messages' = IF SendToByos(outcome) THEN << >>
                                                      ELSE recent_messages
    /\ posts' = posts + 1
    /\ pc' = "tick"
    /\ tick_i' = 0
    /\ overrun' = 0
    /\ UNCHANGED <<running, interface, reconnect_attempts, topen, closed,
                   conn_event, signals, connect_calls, waits30,
                   entered_after_signal, disconnect_called>>
    /\ snapshot' = << >>
    /\ UNCHANGED <<nodevars, message_stats, now, senders, msg_log, last_blank,
                   channels, tchannels, online_nodes, evvars, framevars>>

\* send_to_byos, second half (lines 300-318): requests.post ends, the outcome
\* is classified and returned, which ends the life of the document; then the
\* for loop of line 348 begins
PublishPost ==
    /\ pc = "post"
    /\ \E outcome \in HttpOutcomes :
         /\ response' = outcome
         /\ publish_result' = <<SendToByos(outcome)>>
    /\ posts' = posts + 1
    /\ pc' = "tick"
    /\ tick_i' = 0
    /\ overrun' = 0
    /\ UNCHANGED <<running, interface, reconnect_attempts, topen, closed,
                   conn_event, signals, connect_calls, waits30,
                   entered_after_signal, disconnect_called>>
    /\ snapshot' = << >>
    /\ UNCHANGED <<nodevars, msgvars, channels, tchannels, online_nodes, evvars, framevars>>

\* line 345 drops the value send_to_byos returned
Dropped ==
    /\ publish_result' = << >>
    /\ posts' = 0
    /\ response' = [kind |-> "none", status |-> 0]
    /\ UNCHANGED <<nodevars, msgvars, channels, tchannels, online_nodes, snapshot,
                   evvars, framevars>>

\* lines 348-350: the next i of range(update_interval), and the check of
\* self.running that breaks out of the for loop
TickCheck ==
    /\ pc = "tick"
    /\ pc' = IF tick_i < UpdateInterval /\ running THEN "sleep1" ELSE "while"
    /\ overrun' = 0
    /\ UNCHANGED <<running, interface, reconnect_attempts, tick_i, topen,
                   closed, conn_event, signals, connect_calls, waits30,
                   entered_after_signal, disconnect_called>>
    /\ Dropped

\* line 351: time.sleep(1)
Sleep1 ==
    /\ pc = "sleep1"
    /\ SleepFor(TICK)
    /\ tick_i' = tick_i + 1
    /\ pc' = "tick"
    /\ UNCHANGED <<running, interface, reconnect_attempts, topen, closed,
                   conn_event, signals, connect_calls, waits30,
                   entered_after_signal, disconnect_called>>
    /\ UNCHANGED storevars

\* a loop whose fault handler gives up
CycleFaultFatal ==
    /\ pc \in {"update", "tick", "sleep1"}
    /\ pc' = "exit"
    /\ overrun' = 0
    /\ UNCHANGED <<running, interface, reconnect_attempts, tick_i, topen,
                   closed, conn_event, signals, connect_calls, waits30,
                   entered_after_signal, disconnect_called>>
    /\ Dropped

\* lines 356-357: a statement of the cycle outside update_node_data and
\* send_to_byos, which swallow their own exceptions, raises an Exception: the
\* logging of line 343 or 347, range() or time.sleep of lines 348-351
CycleFault ==
    /\ pc \in {"update", "tick", "sleep1"}
    /\ pc' = "sleep60"
    /\ overrun' = 0
    /\ UNCHANGED <<running, interface, reconnect_attempts, tick_i, topen,
                   closed, conn_event, signals, connect_calls, waits30,
                   entered_after_signal, disconnect_called>>
    /\ Dropped

\* line 358: time.sleep(60), then back to the while
Sleep60 ==
    /\ pc = "sleep60"
    /\ SleepFor(FAULT_WAIT)
    /\ pc' = "while"
    /\ UNCHANGED <<running, interface, reconnect_attempts, tick_i, topen,
                   closed, conn_event, signals, connect_calls, waits30,
                   entered_after_signal, disconnect_called>>
    /\ UNCHANGED storevars

\* a disconnect() that forgets the handle it has closed
LoopExitForgetsHandle ==
    /\ pc = "exit"
    /\ running' = FALSE
    /\ disconnect_called' = TRUE
    /\ closed' = interface
    /\ topen' = (topen /\ ~interface)
    /\ interface' = FALSE
    /\ pc' = "done"
    /\ overrun' = 0
    /\ UNCHANGED <<reconnect_attempts, tick_i, conn_event, signals,
                   connect_calls, waits30, entered_after_signal>>
    /\ UNCHANGED storevars

\* lines 360-361 with disconnect() (lines 91-98): self.running = False;
\* the handle, if any, is closed and stays stored.
LoopExit ==
    /\ pc = "exit"
    /\ running' = FALSE
    /\ disconnect_called' = TRUE
    /\ closed' = interface
    /\ topen' = (topen /\ ~interface)
    /\ pc' = "done"
    /\ overrun' = 0
    /\ UNCHANGED <<interface, reconnect_attempts, tick_i, conn_event, signals,
                   connect_calls, waits30, entered_after_signal>>
    /\ UNCHANGED storevars

\* the steps of the main thread
LoopStep ==
    \/ RunStart
    \/ LoopTop
    \/ ConnectFail
    \/ ConnectOpen
    \/ ConnectStore
    \/ Sleep30
    \/ CycleUpdate
    \/ PublishBuild
    \/ PublishPost
    \/ TickCheck
    \/ Sleep1
    \/ CycleFault
    \/ Sleep60
    \/ LoopExit

(***************************************************************************)
(* The Event Processor: the handlers the transport calls while it is open. *)
(***************************************************************************)
\* on_connection (lines 100-104)
OnConnection ==
    /\ topen
    /\ conn_event
    /\ conn_event' = FALSE
    /\ nodes' = UpdateNodeData(nodes, interface, tnodes)
    /\ channels' = UpdateChannelData(channels, interface, tchannels)
    /\ UNCHANGED <<pc, running, interface, reconnect_attempts, tick_i, topen,
                   closed, histvars>>
    /\ handled' = handled + 1
    /\ UNCHANGED <<tnodes, node_log, msgvars, tchannels, online_nodes,
                   snapshot, publish_result, posts, response, last_raised, framevars>>

\* a node-updated event is delivered to on_node_updated (lines 148-165);
\* node_log records at most `bound` of them
OnNodeUpdated(events, bound) ==
    /\ topen
    /\ \E node \in events :
          /\ nodes' = NodeUpdated(nodes, node)
          /\ node_log' = IF Len(node_log) < bound THEN Append(node_log, node)
                                                  ELSE node_log
          /\ last_raised' = NodeRaises(node)
    /\ UNCHANGED <<tnodes, msgvars, snapvars, handled, framevars>>

\* some character of the text is not a blank
NonBlank(t) == \E i \in 1..Len(t) : t[i] # 0

\* the packet carries a text that is not blank in a slot on_receive reads:
\* decoded['text'], decoded.text, or decoded.data.text of an object without .text
CarriesText(packet) ==
    /\ packet.type = "dict"
    /\ \/ packet.decoded = "dict" /\ \E t \in packet.itemText : NonBlank(t)
       \/ packet.decoded = "object" /\ \E t \in packet.attrText : NonBlank(t)
       \/ /\ packet.decoded = "object" /\ packet.attrText = {}
          /\ \E t \in packet.dataText : NonBlank(t)

\* the packet has no text that is not blank in any slot
NoText(packet) ==
    \A t \in packet.attrText \cup packet.itemText \cup packet.dataText : ~NonBlank(t)

\* a packet of one of the shapes is delivered to on_receive (lines 106-146);
\* the transport delivers at most `bound` packets that carry a text
OnReceive(shapes, bound) ==
    /\ topen
    /\ \E shape \in shapes, origin \in senders :
         LET packet == Packet(shape, origin, Len(msg_log) + 1) IN
         /\ CarriesText(packet) => Len(msg_log) < bound
         /\ recent_messages' = ReceiveHistory(recent_messages, nodes, packet, now)
         /\ message_stats' = ReceiveStats(message_stats, packet)
         /\ msg_log' = IF CarriesText(packet) /\ ~PacketRaises(packet)
                          THEN Append(msg_log, [text |-> <<0, Len(msg_log) + 1>>,
                                                fromId |-> origin.fromId,
                                                from |-> origin.from])
                          ELSE msg_log
         /\ last_blank' = NoText(packet)
         /\ last_raised' = PacketRaises(packet)
    /\ UNCHANGED <<now, senders, handled, framevars>>

(***************************************************************************)
(* Spec: the daemon.  The main thread runs run_update_loop; signals and    *)
(* transport events arrive at any point between its steps.                 *)
(***************************************************************************)
Next ==
    \/ LoopStep
    \/ SignalHandler
    \/ OnConnection
    \/ OnNodeUpdated(LoopNodeEvents, 0) /\ UNCHANGED loopvars
    \/ OnReceive(LoopTextShapes, MaxLoopTexts)
         /\ UNCHANGED <<loopvars, nodevars, snapvars>>

Spec == Init /\ [][Next]_vars

\* The main thread keeps running: every step of run_update_loop that can be
\* taken is eventually taken (a sleep returns, connect() and the POST end).
\* Signals, faults and transport events are the environment's.
MainThread ==
    \/ RunStart
    \/ LoopTop
    \/ ConnectFail
    \/ ConnectOpen
    \/ ConnectStore
    \/ Sleep30
    \/ CycleUpdate
    \/ PublishBuild
    \/ PublishPost
    \/ TickCheck
    \/ Sleep1
    \/ Sleep60
    \/ LoopExit

FairSpec == Spec /\ WF_vars(MainThread)

(***************************************************************************)
(* NodeSpec: the node handlers of the Event Processor.  The daemon is      *)
(* connected and the main thread sleeps between two cycles, or connect()   *)
(* has opened the transport and not yet stored the handle; the transport   *)
(* delivers node-updated events and the node table is replayed.            *)
(***************************************************************************)
NodeInit ==
    /\ pc \in {"connect_store", "sleep1"}
    /\ reconnect_attempts = 0
    /\ tick_i = 0
    /\ interface = (pc = "sleep1")
    /\ running = TRUE
    /\ topen = TRUE
    /\ closed = FALSE
    /\ signals = 0
    /\ connect_calls = 1
    /\ waits30 = 0
    /\ entered_after_signal = FALSE
    /\ disconnect_called = FALSE
    /\ overrun = 0
    /\ conn_event = FALSE
    /\ StoreInit

\* the transport's node table changes as the radio hears the mesh
TransportNodes ==
    /\ \E t \in NodeTables : tnodes' = t
    /\ UNCHANGED <<nodes, node_log, msgvars, snapvars, evvars, framevars>>

\* a node-updated event is delivered, as long as node_log can record it
DeliverNodeUpdated ==
    /\ Len(node_log) < MaxNodeEvents
    /\ OnNodeUpdated(NodeEvents, MaxNodeEvents)

\* update_node_data is called (by on_connection or by the cycle)
CallUpdateNodeData ==
    /\ Len(node_log) + Len(tnodes) <= MaxNodeEvents
    /\ nodes' = UpdateNodeData(nodes, interface, tnodes)
    /\ node_log' = IF interface THEN node_log \o tnodes ELSE node_log
    /\ UNCHANGED <<tnodes, msgvars, snapvars, evvars, framevars>>

NodeNext ==
    \/ TransportNodes /\ UNCHANGED loopvars
    \/ DeliverNodeUpdated /\ UNCHANGED loopvars
    \/ CallUpdateNodeData /\ UNCHANGED loopvars

NodeSpec == NodeInit /\ [][NodeNext]_vars

(***************************************************************************)
(* MsgSpec: on_receive.  The daemon is connected, the registry knows node  *)
(* 1 or nothing, and the transport delivers packets.                       *)
(***************************************************************************)
\* the registries on_receive looks the sender up in
KnownNodes ==
    { << >>,
      NodeUpdated(<< >>, NodePayload({1}, CHOOSE p \in NodeProfiles : p.shortName = {"A"})) }

MsgInit ==
    /\ pc = "sleep1"
    /\ reconnect_attempts = 0
    /\ tick_i = 0
    /\ interface = TRUE
    /\ running = TRUE
    /\ topen = TRUE
    /\ closed = FALSE
    /\ signals = 0
    /\ connect_calls = 1
    /\ waits30 = 0
    /\ entered_after_signal = FALSE
    /\ disconnect_called = FALSE
    /\ overrun = 0
    /\ conn_event = FALSE
    /\ nodes \in KnownNodes
    /\ tnodes = << >>
    /\ node_log = << >>
    /\ recent_messages = << >>
    /\ message_stats = << >>
    /\ now = Noon
    /\ senders \in SenderSets
    /\ msg_log = << >>
    /\ last_blank = FALSE
    /\ channels = << >>
    /\ tchannels = << >>
    /\ online_nodes = << >>
    /\ snapshot = << >>
    /\ publish_result = << >>
    /\ posts = 0
    /\ response = [kind |-> "none", status |-> 0]
    /\ handled = 0
    /\ last_raised = FALSE
    /\ FrameInit

MsgNext ==
    OnReceive(PacketShapes, MaxTextPackets) /\ UNCHANGED <<loopvars, nodevars, snapvars>>

MsgSpec == MsgInit /\ [][MsgNext]_vars

(***************************************************************************)
(* SnapSpec: the Online Classifier and the Snapshot Builder applied to     *)
(* stores the handlers can have built: the stores are drawn by running     *)
(* on_node_updated, on_receive and update_channel_data on generated        *)
(* payloads, then a snapshot is built.                                     *)
(***************************************************************************)
\* the times a snapshot is built at: noon, and ten minutes past midnight
SnapTimes == {Noon, Noon + 12 * 3600 + 600}

\* how long before the snapshot the i-th node of a registry was heard, in
\* seconds: "spread" has every node heard within the last quarter of an hour,
\* a minute apart; "edge" walks around the threshold of 30 minutes; "tied"
\* has every node heard in the same minute
HeardAgo(pattern, i) ==
    IF pattern = "spread" THEN (i - 1) * 60
    ELSE IF pattern = "tied" THEN i
    ELSE <<0, 600, 2400, 1799, 1800, 1801>>[((i - 1) % 6) + 1]

SnapPatterns == {"spread", "edge", "tied"}

\* the payloads that build a registry of n nodes
SnapPayloads(n, pattern, t) ==
    [i \in 1..n |->
       [type |-> "dict", num |-> {i}, user |-> "dict", longName |-> {},
        shortName |-> {IF i % 2 = 0 THEN "A" ELSE "B"},
        lastHeard |-> {t - HeardAgo(pattern, i)},
        snr |-> {575}, position |-> {}, deviceMetrics |-> {}]]

\* the history and the counters after k text packets of one sender
RECURSIVE HistoryAfter(_, _)
HistoryAfter(k, t) ==
    IF k = 0 THEN << >>
    ELSE ReceiveHistory(HistoryAfter(k - 1, t), << >>,
                        Packet(CHOOSE sh \in PacketShapes : sh.item = "text",
                               CHOOSE o \in PacketOrigins : o.fromId = {"!a"}, k), t)

RECURSIVE StatsAfter(_)
StatsAfter(k) ==
    IF k = 0 THEN << >>
    ELSE ReceiveStats(StatsAfter(k - 1),
                      Packet(CHOOSE sh \in PacketShapes : sh.item = "text",
                             CHOOSE o \in PacketOrigins : o.fromId = {"!a"}, k))

\* the channel lists of the model's transport: m channels, all without a name
\* of their own ("plain": they are recorded as "Channel i"), or as they come
\* ("mixed": named, blank, without settings)
SnapChannelList(m, kind) ==
    [i \in 1..m |->
       IF kind = "plain"
         THEN CHOOSE c \in ChannelObjects : c.settings /\ c.name = {}
       ELSE IF i % 3 = 1 THEN CHOOSE c \in ChannelObjects : c.name = {"LongFast"}
       ELSE IF i % 3 = 2 THEN CHOOSE c \in ChannelObjects : c.name = {" "}
       ELSE CHOOSE c \in ChannelObjects : c.name = {"Admin"}]

SnapInit ==
    /\ pc = "publish"
    /\ reconnect_attempts = 0
    /\ tick_i = 0
    /\ interface = TRUE
    /\ running = TRUE
    /\ topen = TRUE
    /\ closed = FALSE
    /\ signals = 0
    /\ connect_calls = 1
    /\ waits30 = 0
    /\ entered_after_signal = FALSE
    /\ disconnect_called = FALSE
    /\ overrun = 0
    /\ conn_event = FALSE
    /\ now \in SnapTimes
    /\ tnodes = << >>
    /\ \E n \in 0..MaxSnapNodes, pattern \in SnapPatterns :
         /\ node_log = SnapPayloads(n, pattern, now)
         /\ nodes = ReplayNodes(<< >>, node_log)
    /\ \E k \in {0, 2, MAX_RECENT_MESSAGES, MAX_RECENT_MESSAGES + 1} :
         /\ recent_messages = HistoryAfter(k, now)
         /\ message_stats = StatsAfter(k)
         /\ msg_log = [i \in 1..k |-> [text |-> <<0, i>>, fromId |-> {"!a"}, from |-> {1}]]
    /\ senders \in SenderSets
    /\ last_blank = FALSE
    \* the channel registry was never refreshed, or refreshed once
    /\ \E m \in 0..MaxSnapChannels, kind \in {"plain", "mixed"}, refreshed \in BOOLEAN :
         /\ tchannels = SnapChannelList(m, kind)
         /\ channels = IF refreshed THEN UpdateChannelData(<< >>, TRUE, tchannels)
                                    ELSE << >>
    /\ online_nodes = << >>
    /\ snapshot = << >>
    /\ publish_result = << >>
    /\ posts = 0
    /\ response = [kind |-> "none", status |-> 0]
    /\ handled = 0
    /\ last_raised = FALSE
    /\ FrameInit

\* get_online_nodes is called on its own (as main does in test mode, line 414)
CallGetOnlineNodes ==
    /\ online_nodes' = GetOnlineNodes(nodes, now)
    /\ UNCHANGED <<channels, tchannels, snapshot, publish_result, posts, response,
                   evvars, framevars>>

\* prepare_display_data is called: line 268 sets its local online_nodes,
\* lines 272-287 build the document
CallPrepareDisplayData ==
    /\ online_nodes' = GetOnlineNodes(nodes, now)
    /\ snapshot' = <<PrepareDisplayData(nodes, recent_messages, message_stats,
                                        channels, interface, now)>>
    /\ UNCHANGED <<channels, tchannels, publish_result, posts, response, evvars, framevars>>

SnapNext ==
    \/ CallGetOnlineNodes /\ UNCHANGED <<loopvars, nodevars, msgvars>>
    \/ CallPrepareDisplayData /\ UNCHANGED <<loopvars, nodevars, msgvars>>

SnapSpec == SnapInit /\ [][SnapNext]_vars

(***************************************************************************)
(* ConnSpec: on_connection.  The transport is open; connect() has stored   *)
(* the handle or not yet; the radio's node table and channel list change   *)
(* over time, and the transport announces the connection, again and again. *)
(***************************************************************************)
\* the channel lists the radio reports over time
ConnChannelLists ==
    { << >>,
      << CHOOSE c \in ChannelObjects : c.name = {"LongFast"},
         CHOOSE c \in ChannelObjects : c.name = {"Admin"} >>,
      << CHOOSE c \in ChannelObjects : c.name = {"LongFast"} >>,
      << CHOOSE c \in ChannelObjects : c.name = {""},
         CHOOSE c \in ChannelObjects : c.name = {"Admin"} >>,
      << CHOOSE c \in ChannelObjects : c.name = {""},
         CHOOSE c \in ChannelObjects : c.name = {" "} >> }

ConnInit ==
    /\ pc \in {"connect_store", "sleep1"}
    /\ reconnect_attempts = 0
    /\ tick_i = 0
    /\ interface = (pc = "sleep1")
    /\ running = TRUE
    /\ topen = TRUE
    /\ closed = FALSE
    /\ signals = 0
    /\ connect_calls = 1
    /\ waits30 = 0
    /\ entered_after_signal = FALSE
    /\ disconnect_called = FALSE
    /\ overrun = 0
    /\ conn_event = TRUE
    /\ nodes = << >>
    /\ tnodes \in NodeTables
    /\ node_log = << >>
    /\ recent_messages = HistoryAfter(2, Noon)
    /\ message_stats = StatsAfter(2)
    /\ now = Noon
    /\ senders = {o \in PacketOrigins : o.fromId = {"!a"}}
    /\ msg_log = [i \in 1..2 |-> [text |-> <<0, i>>, fromId |-> {"!a"}, from |-> {1}]]
    /\ last_blank = FALSE
    /\ channels = << >>
    /\ tchannels \in ConnChannelLists
    /\ online_nodes = << >>
    /\ snapshot = << >>
    /\ publish_result = << >>
    /\ posts = 0
    /\ response = [kind |-> "none", status |-> 0]
    /\ handled = 0
    /\ last_raised = FALSE
    /\ FrameInit

\* the radio is reconfigured or hears new nodes: the transport reloads its
\* node table and channel list and announces the connection
TransportChanges ==
    /\ \E table \in NodeTables : tnodes' = table
    /\ \E list \in ConnChannelLists : tchannels' = list
    /\ <<tnodes', tchannels'>> # <<tnodes, tchannels>>
    /\ conn_event' = TRUE
    /\ handled' = 0
    /\ UNCHANGED <<pc, running, interface, reconnect_attempts, tick_i, topen,
                   closed, histvars>>
    /\ UNCHANGED <<nodes, node_log, msgvars, channels, online_nodes, snapshot,
                   publish_result, posts, response, last_raised, framevars>>

\* the transport announces the connection once more, its data unchanged
TransportAnnounces ==
    /\ ~conn_event
    /\ handled < MaxAnnounces
    /\ conn_event' = TRUE
    /\ UNCHANGED <<pc, running, interface, reconnect_attempts, tick_i, topen,
                   closed, histvars>>
    /\ UNCHANGED storevars

ConnNext ==
    \/ TransportChanges
    \/ TransportAnnounces
    \/ OnConnection

ConnSpec == ConnInit /\ [][ConnNext]_vars

(***************************************************************************)
(* EventSpec: the Event Processor fed well-formed and malformed events.    *)
(* The daemon is connected; the transport delivers node-updated events and *)
(* packets, some of which make their handler raise.                        *)
(***************************************************************************)
\* two well-formed profiles under two node numbers, and the payloads that
\* make on_node_updated raise
EventNodePayloads ==
    {e \in NodeEvents :
        \/ NodeRaises(e)
        \/ e.shortName \in {{"A"}, {"B"}} /\ e.num \in {{1}, {2}}}

\* a text message in two shapes, a packet without text, and a packet that
\* is not a dict
EventPacketShapes ==
    {sh \in PacketShapes :
        \/ sh.type # "dict"
        \/ sh.item = "text"
        \/ sh.attr = "text"
        \/ sh.decoded = "dict" /\ sh.item = "none"}

EventInit ==
    /\ pc = "sleep1"
    /\ reconnect_attempts = 0
    /\ tick_i = 0
    /\ interface = TRUE
    /\ running = TRUE
    /\ topen = TRUE
    /\ closed = FALSE
    /\ signals = 0
    /\ connect_calls = 1
    /\ waits30 = 0
    /\ entered_after_signal = FALSE
    /\ disconnect_called = FALSE
    /\ overrun = 0
    /\ conn_event = FALSE
    /\ nodes = << >>
    /\ tnodes = << >>
    /\ node_log = << >>
    /\ recent_messages = << >>
    /\ message_stats = << >>
    /\ now = Noon
    \* one sender with a time, one whose time datetime.fromtimestamp rejects
    /\ senders = {o \in PacketOrigins : o.fromId \in {{"!a"}, {"!c"}}}
    /\ msg_log = << >>
    /\ last_blank = FALSE
    /\ channels = << >>
    /\ tchannels = << >>
    /\ online_nodes = << >>
    /\ snapshot = << >>
    /\ publish_result = << >>
    /\ posts = 0
    /\ response = [kind |-> "none", status |-> 0]
    /\ handled = 0
    /\ last_raised = FALSE
    /\ FrameInit

\* a node-updated event is delivered, as long as node_log can record it
DeliverNodeEvent ==
    /\ Len(node_log) < MaxEventNodes
    /\ OnNodeUpdated(EventNodePayloads, MaxEventNodes)

EventNext ==
    \/ DeliverNodeEvent /\ UNCHANGED loopvars
    \/ OnReceive(EventPacketShapes, MaxEventTexts)
         /\ UNCHANGED <<loopvars, nodevars, snapvars>>

EventSpec == EventInit /\ [][EventNext]_vars

(***************************************************************************)
(* BuildSpec: one call of send_to_byos by the main thread, statement by    *)
(* statement, while the transport's thread delivers events.  The           *)
(* interpreter switches threads between statements, so on_receive is three *)
(* steps from its first change of state on (lines 139, 140, 141) and       *)
(* prepare_display_data reads the stores at lines 268, 243-246, 250, 257   *)
(* and 260-281.  The transport's thread handles one event at a time.       *)
(***************************************************************************)
\* the node-updated events of BuildSpec's transport: a node heard a minute
\* ago and a node heard an hour ago, under two numbers
BuildNodeEvents ==
    {e \in NodeEvents : e.shortName \in {{"A"}, {"B"}} /\ e.num \in {{1}, {2}}}

BuildInit ==
    /\ pc = "publish"
    /\ reconnect_attempts = 0
    /\ tick_i = 0
    /\ interface = TRUE
    /\ running = TRUE
    /\ topen = TRUE
    /\ closed = FALSE
    /\ signals = 0
    /\ connect_calls = 1
    /\ waits30 = 0
    /\ entered_after_signal = FALSE
    /\ disconnect_called = FALSE
    /\ overrun = 0
    /\ conn_event = FALSE
    /\ nodes \in KnownNodes
    /\ tnodes = << >>
    /\ node_log = << >>
    /\ recent_messages = << >>
    /\ message_stats = << >>
    /\ now = Noon
    /\ senders = {o \in PacketOrigins : o.fromId = {"!a"}}
    /\ msg_log = << >>
    /\ last_blank = FALSE
    /\ channels = UpdateChannelData(<< >>, TRUE, << >>)
    /\ tchannels = << >>
    /\ online_nodes = << >>
    /\ snapshot = << >>
    /\ publish_result = << >>
    /\ posts = 0
    /\ response = [kind |-> "none", status |-> 0]
    /\ handled = 0
    /\ last_raised = FALSE
    /\ FrameInit

\* on_receive, lines 106-139: a packet is delivered and parsed, and its
\* message, if it has one, is appended to the history
ReceiveAppend ==
    /\ topen
    /\ receiving = << >>
    /\ \E shape \in LoopPacketShapes, origin \in senders :
         LET packet == Packet(shape, origin, Len(msg_log) + 1) IN
         /\ CarriesText(packet) => Len(msg_log) < MaxBuildTexts
         /\ recent_messages' = ReceiveHistory(recent_messages, nodes, packet, now)
         /\ receiving' = IF HasText(packet) /\ ~PacketRaises(packet)
                            THEN <<[from_id |-> SenderId(packet), line |-> 140]>>
                            ELSE << >>
         /\ msg_log' = IF CarriesText(packet) /\ ~PacketRaises(packet)
                          THEN Append(msg_log, [text |-> <<0, Len(msg_log) + 1>>,
                                                fromId |-> origin.fromId,
                                                from |-> origin.from])
                          ELSE msg_log
         /\ last_blank' = NoText(packet)
         /\ last_raised' = PacketRaises(packet)
    /\ UNCHANGED <<message_stats, now, senders, handled, recent_list,
                   message_summary, stats_online>>
    /\ UNCHANGED <<loopvars, nodevars, snapvars>>

\* on_receive, line 140: self.message_stats[str(from_id)] += 1
ReceiveCountSender ==
    /\ receiving # << >>
    /\ receiving[1].line = 140
    /\ message_stats' = Increment(message_stats, receiving[1].from_id)
    /\ receiving' = <<[receiving[1] EXCEPT !.line = 141]>>
    /\ UNCHANGED <<recent_messages, now, senders, msg_log, last_blank, evvars,
                   recent_list, message_summary, stats_online>>
    /\ UNCHANGED <<loopvars, nodevars, snapvars>>

\* on_receive, lines 141-143: self.message_stats['total'] += 1, and return
ReceiveCountTotal ==
    /\ receiving # << >>
    /\ receiving[1].line = 141
    /\ message_stats' = Increment(message_stats, "total")
    /\ receiving' = << >>
    /\ UNCHANGED <<recent_messages, now, senders, msg_log, last_blank, evvars,
                   recent_list, message_summary, stats_online>>
    /\ UNCHANGED <<loopvars, nodevars, snapvars>>

\* a node-updated event is handled, when the transport's thread is not
\* inside on_receive; line 154 is on_node_updated's one change of state
BuildNodeUpdated ==
    /\ receiving = << >>
    /\ OnNodeUpdated(BuildNodeEvents, 0)
    /\ UNCHANGED loopvars

\* what is left unchanged by a step of the build that only reads the stores
BuildFrame ==
    /\ overrun' = 0
    /\ UNCHANGED <<running, interface, reconnect_attempts, tick_i, topen,
                   closed, conn_event, signals, connect_calls, waits30,
                   entered_after_signal, disconnect_called>>
    /\ UNCHANGED <<nodevars, msgvars, channels, tchannels, publish_result,
                   posts, response, evvars, receiving>>

\* prepare_display_data, line 268: online_nodes = self.get_online_nodes()
BuildOnlineNodes ==
    /\ pc = "publish"
    /\ online_nodes' = GetOnlineNodes(nodes, now)
    /\ pc' = "summary"
    /\ BuildFrame
    /\ UNCHANGED <<snapshot, recent_list, message_summary, stats_online>>

\* get_message_summary, lines 243-247: the early return on an empty
\* history, else the reversed copy of the history
SummaryRead ==
    /\ pc = "summary"
    /\ IF recent_messages = << >>
         THEN /\ message_summary' = <<[total |-> 0, recent |-> << >>]>>
              /\ pc' = "stats"
              /\ UNCHANGED recent_list
         ELSE /\ recent_list' = Reverse(recent_messages)
              /\ pc' = "summary_total"
              /\ UNCHANGED message_summary
    /\ BuildFrame
    /\ UNCHANGED <<snapshot, online_nodes, stats_online>>

\* get_message_summary, lines 249-253: the total is read and the summary
\* returned
SummaryTotal ==
    /\ pc = "summary_total"
    /\ message_summary' = <<[total |-> DictGet(message_stats, "total", 0),
                             recent |-> Prefix(recent_list, 10)]>>
    /\ pc' = "stats"
    /\ BuildFrame
    /\ UNCHANGED <<snapshot, online_nodes, recent_list, stats_online>>

\* get_network_stats, line 257: online_nodes = self.get_online_nodes()
StatsOnline ==
    /\ pc = "stats"
    /\ stats_online' = GetOnlineNodes(nodes, now)
    /\ pc' = "assemble"
    /\ BuildFrame
    /\ UNCHANGED <<snapshot, online_nodes, recent_list, message_summary>>

\* get_network_stats, lines 259-264, and prepare_display_data, lines
\* 272-289: the lengths are taken and the document is put together; the
\* locals end with the call
Assemble ==
    /\ pc = "assemble"
    /\ snapshot' =
         <<[network_stats |-> [total_nodes |-> Len(nodes),
                               online_nodes |-> Len(stats_online),
                               channels |-> Len(channels),
                               last_update |-> now % 86400],
            online_nodes |-> Prefix(online_nodes, 12),
            recent_messages |-> Prefix(message_summary[1].recent, 10),
            message_stats |-> [total |-> message_summary[1].total],
            channels |-> Prefix(DictValues(channels), 6),
            status |-> IF interface THEN "connected" ELSE "disconnected",
            timestamp |-> IsoFormat(now)]>>
    /\ online_nodes' = << >>
    /\ recent_list' = << >>
    /\ message_summary' = << >>
    /\ stats_online' = << >>
    /\ pc' = "post"
    /\ BuildFrame

BuildNext ==
    \/ ReceiveAppend
    \/ ReceiveCountSender
    \/ ReceiveCountTotal
    \/ BuildNodeUpdated
    \/ BuildOnlineNodes
    \/ SummaryRead
    \/ SummaryTotal
    \/ StatsOnline
    \/ Assemble
    \/ PublishPost

BuildSpec == BuildInit /\ [][BuildNext]_vars

(***************************************************************************)
(* C1.  As long as every connect() call has failed, the retry counter      *)
(* equals the number of connect() calls and never exceeds                  *)
(* MAX_RECONNECT_ATTEMPTS (5); the fifth failure takes the loop to its     *)
(* exit, so that no sixth connect() is attempted; a 30-second wait follows *)
(* each of the first four failures and not the fifth; and the loop, kept   *)
(* running, ends unless some connect() succeeds.                           *)
(***************************************************************************)
AllConnectsFailed == ~topen /\ ~interface

FailedConnectsCounted ==
    /\ reconnect_attempts <= MAX_RECONNECT_ATTEMPTS
    /\ AllConnectsFailed =>
          /\ connect_calls = reconnect_attempts
          /\ connect_calls <= MAX_RECONNECT_ATTEMPTS
          /\ connect_calls = MAX_RECONNECT_ATTEMPTS => pc \in {"exit", "done"}
          /\ pc = "sleep30" => /\ connect_calls < MAX_RECONNECT_ATTEMPTS
                               /\ waits30 = connect_calls - 1
          /\ pc # "sleep30" =>
                waits30 = IF connect_calls < MAX_RECONNECT_ATTEMPTS
                            THEN connect_calls
                            ELSE MAX_RECONNECT_ATTEMPTS - 1

C1_FiveFailedConnects ==
    /\ []FailedConnectsCounted
    /\ <>(~AllConnectsFailed \/ pc = "done")

\* five connect() calls have failed, four waits were taken and the loop has
\* ended without any signal
C1_Witness ==
    /\ pc = "done"
    /\ signals = 0
    /\ AllConnectsFailed
    /\ connect_calls = MAX_RECONNECT_ATTEMPTS
    /\ waits30 = MAX_RECONNECT_ATTEMPTS - 1
    /\ disconnect_called

(***************************************************************************)
(* C2.  Once a termination signal has been delivered, at any moment after  *)
(* construction, the body of the while loop is never entered again, and    *)
(* the loop eventually ends with disconnect() called.                      *)
(***************************************************************************)
C2_SignalStopsLoop ==
    /\ [](~entered_after_signal)
    /\ (signals > 0) ~> (pc = "done" /\ disconnect_called)

(***************************************************************************)
(* C3.  A sleep call of the main loop (the 30-second reconnect wait, the   *)
(* 1-second ticks of the inter-cycle sleep, the 60-second cool-down) that  *)
(* returns has run for at most one tick (1 second) with a shutdown request *)
(* pending.                                                                *)
(***************************************************************************)
C3_SleepLeftWithinOneTick == overrun <= TICK

(***************************************************************************)
(* C4.  After any sequence of node-updated events, delivered or replayed   *)
(* by update_node_data, the Node Registry holds exactly one entry per      *)
(* distinct non-zero node id of the payloads processed so far (a payload   *)
(* whose parsing raises is dropped whole and is not processed), each entry *)
(* is exactly what the most recent processed payload of that id parses to  *)
(* (nothing of the previous entry survives), a payload with a zero or      *)
(* missing id changes nothing, and no id is ever removed.                  *)
(***************************************************************************)
\* the payload is parsed and has a non-zero id
Processed(node) == node.type = "dict" /\ node.user # "none" /\ Opt(node.num, 0) # 0

ProcessedAt(id) ==
    {i \in 1..Len(node_log) : Processed(node_log[i]) /\ Opt(node_log[i].num, 0) = id}

SeenIds == {Opt(node_log[i].num, 0) : i \in {j \in 1..Len(node_log) : Processed(node_log[j])}}

LastPayload(id) == node_log[CHOOSE i \in ProcessedAt(id) : \A j \in ProcessedAt(id) : j <= i]

C4_RegistryReflectsLastEvent ==
    /\ DictKeys(nodes) = SeenIds
    /\ 0 \notin DictKeys(nodes)
    /\ \A i, j \in 1..Len(nodes) : nodes[i].k = nodes[j].k => i = j
    /\ \A i \in 1..Len(nodes) :
          LET last == LastPayload(nodes[i].k) IN
          nodes[i].v = [id |-> nodes[i].k,
                        longName |-> IF last.user = "dict" /\ last.longName # {}
                                       THEN CHOOSE x \in last.longName : TRUE
                                       ELSE "Unknown",
                        shortName |-> IF last.user = "dict" /\ last.shortName # {}
                                        THEN CHOOSE x \in last.shortName : TRUE
                                        ELSE "UNK",
                        lastHeard |-> IF last.lastHeard = {} THEN 0
                                        ELSE CHOOSE x \in last.lastHeard : TRUE,
                        snr |-> IF last.snr = {} THEN 0 ELSE CHOOSE x \in last.snr : TRUE,
                        position |-> last.position,
                        telemetry |-> last.deviceMetrics]

\* an id was overwritten by a payload with other fields, a payload without an
\* id was processed, and a second id is registered
C4_Witness ==
    /\ Len(node_log) = MaxNodeEvents
    /\ \E i, j \in 1..Len(node_log) :
          /\ i < j
          /\ Processed(node_log[i]) /\ Processed(node_log[j])
          /\ node_log[i].num = node_log[j].num
          /\ node_log[i].user = "dict" /\ node_log[i].shortName = {"A"}
          /\ node_log[j].user = "missing"
    /\ \E i \in 1..Len(node_log) : Opt(node_log[i].num, 0) = 0
    /\ Len(nodes) = 1

(***************************************************************************)
(* C5.  The Message History never holds more than MAX_RECENT_MESSAGES (10) *)
(* messages; it holds the min(10, N) most recent of the N text packets     *)
(* processed, in arrival order, so that after N > 10 packets the oldest    *)
(* N - 10 have been evicted.                                               *)
(***************************************************************************)
C5_HistoryBounded ==
    /\ Len(recent_messages) <= 10
    /\ Len(recent_messages) = IF Len(msg_log) < 10 THEN Len(msg_log) ELSE 10
    /\ \A i \in 1..Len(recent_messages) :
          recent_messages[i].text = msg_log[Len(msg_log) - Len(recent_messages) + i].text

\* more than 10 text packets were processed and the first was evicted
C5_Witness ==
    /\ Len(msg_log) > 10
    /\ Len(recent_messages) = 10
    /\ recent_messages[1].text = msg_log[Len(msg_log) - 9].text
    /\ recent_messages[1].text # msg_log[1].text

(***************************************************************************)
(* C6.  A packet that carries no text that is not blank, in any of the     *)
(* payload shapes, leaves the Message History and every counter of the     *)
(* Message Statistics unchanged.                                           *)
(***************************************************************************)
C6_NoTextNoChange ==
    [][last_blank' => UNCHANGED <<recent_messages, message_stats>>]_vars

\* a packet without text was delivered when messages had been recorded
C6_Witness ==
    /\ last_blank
    /\ Len(recent_messages) = 2
    /\ DictGet(message_stats, "total", 0) >= 2

(***************************************************************************)
(* C7.  send_to_byos returns True exactly when the POST ended with a       *)
(* response of status 200 or 201, and False for any other status, a        *)
(* timeout or a network error; it returns to the loop, which goes on to    *)
(* the inter-cycle sleep, never to the fault handler; and a call issues at *)
(* most one POST.                                                          *)
(***************************************************************************)
C7_PublishResult ==
    /\ posts <= 1
    /\ pc = "post" => posts = 0 /\ publish_result = << >>
    /\ publish_result # << >> =>
          /\ pc = "tick"
          /\ posts = 1
          /\ publish_result[1] \in BOOLEAN
          /\ publish_result[1] <=> /\ response.kind = "response"
                                   /\ response.status \in {200, 201}

\* a publish answered 201 has returned True to a loop that goes on
C7_Witness ==
    /\ publish_result = <<TRUE>>
    /\ response = [kind |-> "response", status |-> 201]
    /\ posts = 1
    /\ pc = "tick"

(***************************************************************************)
(* C8.  get_online_nodes returns exactly the nodes of the registry heard   *)
(* strictly later than now minus 30 minutes, each once: a node heard       *)
(* exactly 1800 seconds ago or earlier is left out, one heard 1799 seconds *)
(* ago is in (nodes 1, 2, 3 heard now, 10 and 40 minutes ago give {1, 2}). *)
(***************************************************************************)
C8_OnlineStrictlyAfterThreshold ==
    (snapshot # << >> \/ online_nodes # << >>) =>
      /\ {online_nodes[i].id : i \in 1..Len(online_nodes)}
           = {nodes[i].k : i \in {j \in 1..Len(nodes) : nodes[j].v.lastHeard > now - 1800}}
      /\ \A i, j \in 1..Len(online_nodes) : online_nodes[i].id = online_nodes[j].id => i = j

\* the classifier ran on nodes heard now, 10 and 40 minutes ago, and 1799,
\* 1800 and 1801 seconds ago, and returned the first two and the fourth
C8_Witness ==
    /\ Len(nodes) = 6
    /\ \A i \in 1..6 : nodes[i].k = i
    /\ nodes[1].v.lastHeard = now /\ nodes[2].v.lastHeard = now - 600
    /\ nodes[3].v.lastHeard = now - 2400 /\ nodes[4].v.lastHeard = now - 1799
    /\ nodes[5].v.lastHeard = now - 1800 /\ nodes[6].v.lastHeard = now - 1801
    /\ {online_nodes[i].id : i \in 1..Len(online_nodes)} = {1, 2, 4}

(***************************************************************************)
(* C9.  Every snapshot holds at most 12 online nodes, 10 recent messages   *)
(* and 6 channels, whatever the stores hold, and each of the three lists   *)
(* is the longest such prefix of the full ordered list it is cut from: the *)
(* classifier's output, the history newest first, the channels in registry *)
(* order.                                                                  *)
(***************************************************************************)
IsCutOf(short, full, cap) ==
    /\ Len(short) = IF Len(full) < cap THEN Len(full) ELSE cap
    /\ \A i \in 1..Len(short) : short[i] = full[i]

C9_SnapshotCaps ==
    snapshot # << >> =>
      /\ Len(snapshot[1].online_nodes) <= 12
      /\ Len(snapshot[1].recent_messages) <= 10
      /\ Len(snapshot[1].channels) <= 6
      /\ IsCutOf(snapshot[1].online_nodes, online_nodes, 12)
      /\ IsCutOf(snapshot[1].recent_messages,
                 [i \in 1..Len(recent_messages) |->
                    recent_messages[Len(recent_messages) + 1 - i]], 10)
      /\ IsCutOf(snapshot[1].channels, [i \in 1..Len(channels) |-> channels[i].v], 6)

\* a snapshot of 13 online nodes, a full history and 7 channels
C9_Witness ==
    /\ snapshot # << >>
    /\ Len(online_nodes) = 13 /\ Len(snapshot[1].online_nodes) = 12
    /\ Len(channels) = 7 /\ Len(snapshot[1].channels) = 6
    /\ Len(recent_messages) = 10 /\ Len(snapshot[1].recent_messages) = 10

(***************************************************************************)
(* C10.  A snapshot is never channel-empty, and a snapshot built on empty  *)
(* node, message and channel registries has total_nodes = 0,               *)
(* online_nodes = 0, channels = 1 with the synthetic default channel as    *)
(* its channel list, and no recent messages.                               *)
(***************************************************************************)
C10_SnapshotNeverChannelEmpty ==
    \A i \in 1..Len(snapshot) :
        LET data == snapshot[i] IN
        /\ data.channels # << >>
        /\ (nodes = << >> /\ recent_messages = << >> /\ channels = << >>) =>
              /\ data.network_stats.total_nodes = 0
              /\ data.network_stats.online_nodes = 0
              /\ data.network_stats.channels = 1
              /\ data.channels = <<DefaultChannel>>
              /\ data.recent_messages = << >>

(***************************************************************************)
(* C11.  Once the connection-established event of a successful connect()   *)
(* has been handled, also when it was handled before connect() stored the  *)
(* handle, a snapshot is built only on registries resynchronized from the  *)
(* transport: the Node Registry holds every node of the transport's table  *)
(* and the Channel Registry is what a channel refresh of that transport    *)
(* records.                                                                *)
(***************************************************************************)
C11_ResyncBeforeFirstSnapshot ==
    (snapshot # << >> /\ ~conn_event) =>
        /\ \A i \in 1..Len(tnodes) :
              (~NodeRaises(tnodes[i]) /\ Opt(tnodes[i].num, 0) # 0) =>
                  DictHas(nodes, Opt(tnodes[i].num, 0))
        /\ channels = UpdateChannelData(<< >>, TRUE, tchannels)

(***************************************************************************)
(* C12.  The loop reaches its exit only when a shutdown was requested or   *)
(* MAX_RECONNECT_ATTEMPTS connect() calls failed in a row.  A publish,     *)
(* whatever its outcome, is followed by the inter-cycle sleep, which a     *)
(* running loop leaves for the next cycle only after update_interval       *)
(* ticks; a cycle fault is followed by the 60-second wait and then the     *)
(* top of the loop.                                                        *)
(***************************************************************************)
ExitJustified ==
    pc \in {"exit", "done"} =>
        \/ signals > 0
        \/ reconnect_attempts = MAX_RECONNECT_ATTEMPTS /\ AllConnectsFailed

LoopGoesOn ==
    /\ (pc = "post" /\ pc' # pc) => (pc' = "tick" /\ tick_i' = 0)
    /\ (pc = "tick" /\ pc' = "while" /\ running) => tick_i = UpdateInterval
    /\ (pc = "sleep60" /\ pc' # pc) => pc' = "while"
    /\ (pc' = "sleep60" /\ pc' # pc) => pc \in {"update", "tick", "sleep1"}
    /\ (pc' = "exit" /\ pc' # pc) => pc \in {"while", "connect"}

C12_OnlyShutdownOrRetriesStop ==
    /\ []ExitJustified
    /\ [][LoopGoesOn]_vars
    /\ (pc = "post") ~> (pc = "tick")
    /\ (pc = "sleep60") ~> (pc = "while")

\* a publish has timed out and the loop, never asked to stop, is in its
\* inter-cycle sleep
C12_Witness ==
    /\ publish_result = <<FALSE>>
    /\ response.kind = "timeout"
    /\ pc = "tick"
    /\ running
    /\ signals = 0

(***************************************************************************)
(* C13.  The loop starts no publish once a shutdown has been requested: a  *)
(* publish begins only while `running` is set.                             *)
(***************************************************************************)
C13_NoPublishAfterShutdown ==
    [][(pc = "publish" /\ pc' = "post") => running]_vars

(***************************************************************************)
(* C14.  A channel refresh on a stored handle leaves in the Channel        *)
(* Registry exactly the channels the transport reports with a name that is *)
(* not blank, each under its index, or exactly the synthetic default       *)
(* channel when it reports none; nothing recorded by an earlier refresh    *)
(* survives unless it is reported again.                                   *)
(***************************************************************************)
ReportedChannels(list) ==
    IF \A i \in 1..Len(list) : ~ChannelNamed(i - 1, list[i])
      THEN {[k |-> 0, v |-> DefaultChannel]}
      ELSE {[k |-> i - 1, v |-> ChannelEntry(i - 1, list[i])] :
               i \in {j \in 1..Len(list) : ChannelNamed(j - 1, list[j])}}

C14_RefreshReplacesChannels ==
    [][(handled' = handled + 1 /\ interface) =>
          /\ {channels'[i] : i \in 1..Len(channels')} = ReportedChannels(tchannels)
          /\ Len(channels') = Cardinality(ReportedChannels(tchannels))]_vars

(***************************************************************************)
(* C15.  In every snapshot the online nodes are listed most recently heard *)
(* first: of two listed nodes, the one the registry has heard later never  *)
(* comes second, also when the online window spans midnight.               *)
(***************************************************************************)
C15_OnlineMostRecentFirst ==
    \A d \in 1..Len(snapshot) :
        LET listed == snapshot[d].online_nodes IN
        \A i, j \in 1..Len(listed) :
            i < j => DictAt(nodes, listed[i].id).lastHeard
                       >= DictAt(nodes, listed[j].id).lastHeard

(***************************************************************************)
(* C16.  In every snapshot recent_messages lists the min(10, N) most       *)
(* recent of the N text messages received, newest first: its first element *)
(* is the message received last.                                           *)
(***************************************************************************)
C16_RecentNewestFirst ==
    \A d \in 1..Len(snapshot) :
        LET shown == snapshot[d].recent_messages
            N == Len(msg_log)
        IN  /\ Len(shown) = IF N < 10 THEN N ELSE 10
            /\ \A i \in 1..Len(shown) : shown[i].text = msg_log[N + 1 - i].text

\* a snapshot taken after eleven text messages shows ten, the eleventh first
C16_Witness ==
    /\ snapshot # << >>
    /\ Len(msg_log) = MAX_RECENT_MESSAGES + 1
    /\ Len(snapshot[1].recent_messages) = MAX_RECENT_MESSAGES
    /\ snapshot[1].recent_messages[1].text = <<0, MAX_RECENT_MESSAGES + 1>>
    /\ snapshot[1].recent_messages[MAX_RECENT_MESSAGES].text = <<0, 2>>

(***************************************************************************)
(* C17.  No counter of the Message Statistics ever decreases, and the      *)
(* counters count the text packets processed: the total is their number,   *)
(* and a sender's counter the number of them that came from that sender.   *)
(***************************************************************************)
CountersCountPackets ==
    /\ DictGet(message_stats, "total", 0) = Len(msg_log)
    /\ \A i \in 1..Len(msg_log) :
          DictGet(message_stats, SenderId(msg_log[i]), 0)
            = Cardinality({j \in 1..Len(msg_log) :
                             SenderId(msg_log[j]) = SenderId(msg_log[i])})

CountersNeverDecrease ==
    \A key \in DictKeys(message_stats) :
        DictGet(message_stats', key, 0) >= DictAt(message_stats, key)

C17_CountersMonotone ==
    /\ []CountersCountPackets
    /\ [][CountersNeverDecrease]_vars

(***************************************************************************)
(* C18.  An event whose handler raises inside its try block leaves the     *)
(* Node Registry, the Message History and the Message Statistics as they   *)
(* were, and the events delivered around it are processed as usual: every  *)
(* well-formed text packet is in the history and counted, and the registry *)
(* holds, for every id of a parsed node payload, what the last such        *)
(* payload parses to.                                                      *)
(***************************************************************************)
WellFormedProcessed ==
    /\ Len(recent_messages) = Len(msg_log)
    /\ \A i \in 1..Len(msg_log) : recent_messages[i].text = msg_log[i].text
    /\ DictGet(message_stats, "total", 0) = Len(msg_log)
    /\ DictKeys(nodes) = SeenIds
    /\ \A id \in SeenIds : DictAt(nodes, id) = NodeEntry(LastPayload(id))

C18_MalformedEventsDropped ==
    /\ [][last_raised' => UNCHANGED <<nodes, recent_messages, message_stats>>]_vars
    /\ []WellFormedProcessed

\* a node payload that raised was followed by one that was recorded, and a
\* text message was recorded before the event that raised last
C18_Witness ==
    /\ Len(node_log) = 2
    /\ NodeRaises(node_log[1])
    /\ Processed(node_log[2])
    /\ Len(nodes) = 1
    /\ Len(recent_messages) = 1
    /\ last_raised

(***************************************************************************)
(* C19.  The Online Classifier's output depends only on the id-to-entry    *)
(* mapping of the registry and on the time: the registry holding the same  *)
(* entries in the reverse order, as built by the same events delivered in  *)
(* another order, gives the same list.                                     *)
(***************************************************************************)
C19_ClassifierDeterministic ==
    (snapshot # << >> \/ online_nodes # << >>) =>
        online_nodes = GetOnlineNodes(Reverse(nodes), now)

(***************************************************************************)
(* C20.  Handling the connection-established event again, the transport's  *)
(* node table and channel list unchanged since it was last handled, leaves *)
(* the Node Registry and the Channel Registry as they are; and no handling *)
(* of the event changes the Message History or the Message Statistics.     *)
(***************************************************************************)
C20_ConnectionIdempotent ==
    /\ [][(handled >= 1 /\ handled' = handled + 1) =>
             UNCHANGED <<nodes, channels>>]_vars
    /\ [][handled' = handled + 1 =>
             UNCHANGED <<recent_messages, message_stats>>]_vars

\* the event was handled twice in a row on a stored handle, with nodes and
\* channels recorded and a history to keep
C20_Witness ==
    /\ handled = 2
    /\ interface
    /\ nodes # << >>
    /\ Len(channels) = 2
    /\ recent_messages # << >>

(***************************************************************************)
(* C21.  The step that builds the snapshot (prepare_display_data with the  *)
(* classifier, the message summary and the network statistics) and the     *)
(* step that posts it (send_to_byos), whatever the outcome of the POST,    *)
(* leave the Node Registry, the Message History, the Message Statistics    *)
(* and the Channel Registry as they were.                                  *)
(***************************************************************************)
BuildsSnapshot == pc = "publish" /\ pc' = "post"

PostsSnapshot == pc = "post" /\ pc' = "tick"

C21_SnapshotAndPublishKeepStores ==
    [][(BuildsSnapshot \/ PostsSnapshot)
         => UNCHANGED <<nodes, recent_messages, message_stats, channels>>]_vars

\* a publish has failed after a snapshot was built from stores that all
\* hold something
C21_Witness ==
    /\ pc = "tick"
    /\ publish_result = <<FALSE>>
    /\ nodes # << >>
    /\ recent_messages # << >>
    /\ message_stats # << >>
    /\ channels # << >>

(***************************************************************************)
(* C22.  After any sequence of packets the total counter is the sum of the *)
(* per-sender counters and the number of text packets processed, whatever  *)
(* the identity strings of the senders are, "total" included.              *)
(***************************************************************************)
RECURSIVE SenderCounterSum(_)
SenderCounterSum(stats) ==
    IF stats = << >> THEN 0
    ELSE (IF Head(stats).k = "total" THEN 0 ELSE Head(stats).v)
           + SenderCounterSum(Tail(stats))

C22_TotalIsSumOfSenders ==
    /\ DictGet(message_stats, "total", 0) = SenderCounterSum(message_stats)
    /\ DictGet(message_stats, "total", 0) = Len(msg_log)

(***************************************************************************)
(* C23.  In every snapshot the total of the message statistics is at least *)
(* the number of entries of recent_messages, also when packets are         *)
(* received while the snapshot is built.                                   *)
(***************************************************************************)
C23_ShownMessagesAreCounted ==
    snapshot # << >> =>
        snapshot[1].message_stats.total >= Len(snapshot[1].recent_messages)

(***************************************************************************)
(* C24.  In every snapshot the online count of network_stats is the number *)
(* of nodes the classifier reported for the snapshot's online_nodes list,  *)
(* so the list has min(count, 12) entries, and total_nodes is at least the *)
(* online count, also when node-updated events are handled while the       *)
(* snapshot is built.                                                      *)
(***************************************************************************)
C24_SnapshotCountsAgree ==
    snapshot # << >> =>
        LET stats == snapshot[1].network_stats IN
        /\ Len(snapshot[1].online_nodes)
             = (IF stats.online_nodes < 12 THEN stats.online_nodes ELSE 12)
        /\ stats.total_nodes >= stats.online_nodes

(***************************************************************************)
(* C25.  Once connect() has succeeded and the handle is stored, the handle *)
(* stays stored for the rest of the run, disconnect() included; the main   *)
(* loop calls connect() no more and does not wait for a reconnection, the  *)
(* reconnect counter stays 0, and every snapshot the main loop builds has  *)
(* the status "connected".                                                 *)
(***************************************************************************)
ConnectedForGood ==
    interface =>
        /\ reconnect_attempts = 0
        /\ pc \notin {"connect", "connect_store", "sleep30"}

HandleKept == interface => (interface' /\ connect_calls' = connect_calls)

C25_ConnectedOnceConnectedForGood ==
    /\ []ConnectedForGood
    /\ [][HandleKept]_vars
    /\ [](snapshot # << >> => snapshot[1].status = "connected")

\* connect() succeeded at the third call, and the loop has ended and
\* disconnected with the handle still stored
C25_Witness ==
    /\ pc = "done"
    /\ disconnect_called
    /\ closed
    /\ interface
    /\ connect_calls = 3
    /\ waits30 = 2

====
